---- MODULE Spec2Model ----
(***************************************************************************)
(* Model of the kubizone Cloudflare integration: the reconcile pass of     *)
(* src/main.rs, the zone catalog published by the refresh task of main(),  *)
(* and the provider client of src/cloudflare.rs with the response envelope *)
(* of src/cloudflare/models.rs.                                            *)
(*                                                                         *)
(* Option<T> values are sets with at most one element: {} is None and {v}  *)
(* is Some(v).  A fully qualified domain name is its sequence of labels.   *)
(* One step of the model is the code between two await points; a provider  *)
(* call (request and response) is one step.                                *)
(***************************************************************************)
EXTENDS Integers, Sequences, FiniteSets, TLC

(* ----------------------------- bounds --------------------------------- *)

\* longest records listing the provider holds initially
MaxRecords == 2

\* longest desired-entry list of the resource
MaxEntries == 2

(* ------------------------ program constants --------------------------- *)

controller_name == "kubizone-cloudflare"

\* default of --requeue-time-secs
requeue_time_secs == 30

\* the fixed requeue delay of error_policy
error_requeue_secs == 60

(* --------------------------- value universe --------------------------- *)

ExampleCom == <<"example", "com">>
SubExampleCom == <<"sub", "example", "com">>
AExampleCom == <<"a", "example", "com">>

ZoneFqdns == {ExampleCom, SubExampleCom}

\* zones the provider may hold: provider-assigned id and name
ProviderZoneUniverse ==
    { [id |-> "z1", fqdn |-> ExampleCom], [id |-> "z2", fqdn |-> SubExampleCom] }

\* record identities used in desired entries and actual records
IdentOrder ==
    << [fqdn |-> AExampleCom, type |-> "A", rdata |-> "1.2.3.4"],
       [fqdn |-> AExampleCom, type |-> "A", rdata |-> "5.6.7.8"],
       [fqdn |-> ExampleCom, type |-> "SOA", rdata |-> "ns.example.com"] >>

IdentUniverse == { IdentOrder[k] : k \in DOMAIN IdentOrder }

TTLs == {300, 600}

Modes == {"Upsert", "Delete"}

\* (comment, tags) pairs a provider record may carry
OwnerMarkUniverse ==
    { [comment |-> {"managed-by:kubizone-cloudflare"}, tags |-> {}],
      [comment |-> {}, tags |-> {"managed-by:kubizone-cloudflare"}],
      [comment |-> {"hand-managed"}, tags |-> {}] }

(* ------------------------- models.rs: records -------------------------- *)

\* impl From<&Record> for RecordIdent, and RecordIdent::from(entry)
RecordIdent(value) ==
    [fqdn |-> value.fqdn, type |-> value.type, rdata |-> value.rdata]

\* format!("managed-by:{controller_name}")
ManagedByTag(name) == "managed-by:" \o name

\* Record::is_managed_by
is_managed_by(record, name) ==
    LET tag == ManagedByTag(name)
    IN  tag \in record.tags \/ record.comment = {tag}

\* Type::is_soa
is_soa(type) == type = "SOA"

(* ------------------- models.rs: the response envelope ------------------ *)

\* What comes back for one HTTP request: no response at all, a body that is not
\* the envelope, or an envelope {success, result, errors}; `names` tells whether
\* every zone or record name of the result splits into valid labels.
Responses ==
    { [shape |-> "transport", success |-> FALSE, result |-> FALSE, names |-> TRUE, errors |-> <<>>],
      [shape |-> "garbled",   success |-> FALSE, result |-> FALSE, names |-> TRUE, errors |-> <<>>],
      [shape |-> "envelope",  success |-> TRUE,  result |-> TRUE,  names |-> TRUE, errors |-> <<>>],
      [shape |-> "envelope",  success |-> TRUE,  result |-> TRUE,  names |-> FALSE, errors |-> <<>>],
      [shape |-> "envelope",  success |-> TRUE,  result |-> FALSE, names |-> TRUE, errors |-> <<>>],
      [shape |-> "envelope",  success |-> FALSE, result |-> FALSE, names |-> TRUE, errors |-> <<>>],
      [shape |-> "envelope",  success |-> FALSE, result |-> FALSE, names |-> TRUE, errors |-> <<1003>>],
      [shape |-> "envelope",  success |-> FALSE, result |-> FALSE, names |-> TRUE,
       errors |-> <<1003, 81057>>] }

\* the one response with which the provider serves a call
OkResponses == { r \in Responses : r.shape = "envelope" /\ r.success /\ r.result /\ r.names }

\* impl From<InternalRecord> for Record, impl From<InternalZone> for Zone:
\* Result::from_iter(name.split('.').map(DomainSegment::try_from)).unwrap() panics on
\* a name with an invalid label
FqdnFrom(value) == IF value.names THEN "Ok" ELSE "PanicInvalidLabel"

\* impl From<InternalApiResult<T>> for ApiResult<T>: value.result.unwrap() panics
\* on a success envelope that has no result
ApiResultFrom(value) ==
    IF value.success
    THEN IF value.result THEN [variant |-> "Success", errors |-> <<>>]
                         ELSE [variant |-> "PanicNoResult", errors |-> <<>>]
    ELSE [variant |-> "Error", errors |-> value.errors]

\* ApiResult::into_result: errors.pop().unwrap() takes the last error and panics on
\* an empty list
into_result(api) ==
    CASE api.variant = "Success" -> [kind |-> "Ok", code |-> 0]
      [] api.variant = "PanicNoResult" -> [kind |-> "PanicNoResult", code |-> 0]
      [] OTHER ->
           IF api.errors = <<>>
           THEN [kind |-> "PanicNoErrors", code |-> 0]
           ELSE [kind |-> "Api", code |-> api.errors[Len(api.errors)]]

\* CloudFlare::request: the outcome of one provider call
request(resp) ==
    CASE resp.shape = "transport" -> [kind |-> "Reqwest", code |-> 0]
      [] resp.shape = "garbled" -> [kind |-> "Deserialization", code |-> 0]
      [] resp.result /\ FqdnFrom(resp) # "Ok" -> [kind |-> FqdnFrom(resp), code |-> 0]
      [] OTHER -> into_result(ApiResultFrom(resp))

\* the call did not return: an unwrap panicked while the response was decoded
IsPanic(out) == out.kind \in {"PanicNoResult", "PanicNoErrors", "PanicInvalidLabel"}

\* the provider applies a mutation exactly when it answers with a success envelope
Applied(resp) == resp.shape = "envelope" /\ resp.success

(* ------------------------- main.rs: the diff -------------------------- *)

\* variant: the first item with a key is kept
CollectByIdentFirst(items) ==
    [ ident \in { RecordIdent(items[k]) : k \in DOMAIN items } |->
        LET ks == { k \in DOMAIN items : RecordIdent(items[k]) = ident }
        IN  items[CHOOSE k \in ks : \A j \in ks : k <= j] ]

\* .map(|x| (RecordIdent::from(x), x)).collect::<HashMap<_, _>>(): a later item
\* replaces an earlier one with the same key
CollectByIdent(items) ==
    [ ident \in { RecordIdent(items[k]) : k \in DOMAIN items } |->
        LET ks == { k \in DOMAIN items : RecordIdent(items[k]) = ident }
        IN  items[CHOOSE k \in ks : \A j \in ks : j <= k] ]

\* variant: no entry is filtered out
KeepSoa(items) == items

\* .filter(|entry| !entry.type_.is_soa())
WithoutSoa(items) == SelectSeq(items, LAMBDA entry : ~is_soa(entry.type))

\* `suffix` is the tail of `name`
IsSuffix(suffix, name) ==
    /\ Len(suffix) <= Len(name)
    /\ \A k \in DOMAIN suffix : suffix[k] = name[Len(name) - Len(suffix) + k]

\* variant: a zone also matches the names below its apex
find_cloudflare_zone_suffix(managed_zones, fqdn) ==
    LET hits == { k \in DOMAIN managed_zones : IsSuffix(managed_zones[k].fqdn, fqdn) }
    IN  IF hits = {} THEN {}
        ELSE { managed_zones[CHOOSE k \in hits : \A j \in hits : k <= j] }

\* variant: the id is read at the head of the list, the name at the match
find_cloudflare_zone_head_id(managed_zones, fqdn) ==
    LET hits == { k \in DOMAIN managed_zones : managed_zones[k].fqdn = fqdn }
    IN  IF hits = {} THEN {}
        ELSE { [id |-> managed_zones[1].id, fqdn |-> fqdn] }

\* Context::find_cloudflare_zone: the first zone whose fqdn equals the resource's
find_cloudflare_zone(managed_zones, fqdn) ==
    LET hits == { k \in DOMAIN managed_zones : managed_zones[k].fqdn = fqdn }
    IN  IF hits = {} THEN {}
        ELSE { managed_zones[CHOOSE k \in hits : \A j \in hits : k <= j] }

\* variant: an identity held by a record that is not ours counts as missing
CreateSetUnowned(entryMap, recordMap) ==
    { ident \in DOMAIN entryMap :
        \/ ident \notin DOMAIN recordMap
        \/ ~is_managed_by(recordMap[ident], controller_name) }

\* identities the create loop calls create_record for
CreateSet(entryMap, recordMap) ==
    { ident \in DOMAIN entryMap : ident \notin DOMAIN recordMap }

\* variant: the mode is not consulted
DeleteSetAnyMode(entryMap, recordMap, m) ==
    { ident \in DOMAIN recordMap :
        /\ ident \notin DOMAIN entryMap
        /\ is_managed_by(recordMap[ident], controller_name) }

\* variant: desired records are deleted as well
DeleteSetEveryOwned(entryMap, recordMap, m) ==
    { ident \in DOMAIN recordMap :
        /\ is_managed_by(recordMap[ident], controller_name)
        /\ m = "Delete" }

\* identities the delete loop calls delete_record for
DeleteSet(entryMap, recordMap, m) ==
    { ident \in DOMAIN recordMap :
        /\ ident \notin DOMAIN entryMap
        /\ is_managed_by(recordMap[ident], controller_name)
        /\ m = "Delete" }

\* variant: the ownership check is missing
UpdateSetAnyOwner(entryMap, recordMap) ==
    { ident \in DOMAIN entryMap \cap DOMAIN recordMap :
        ~(entryMap[ident].rdata = recordMap[ident].rdata
          /\ entryMap[ident].ttl = recordMap[ident].ttl) }

\* variant: the up-to-date check is missing
UpdateSetAlways(entryMap, recordMap) ==
    { ident \in DOMAIN entryMap \cap DOMAIN recordMap :
        is_managed_by(recordMap[ident], controller_name) }

\* variant: only rdata is compared
UpdateSetRdataOnly(entryMap, recordMap) ==
    { ident \in DOMAIN entryMap \cap DOMAIN recordMap :
        /\ is_managed_by(recordMap[ident], controller_name)
        /\ entryMap[ident].rdata # recordMap[ident].rdata }

\* identities the update loop calls update_record for
UpdateSet(entryMap, recordMap) ==
    { ident \in DOMAIN entryMap \cap DOMAIN recordMap :
        /\ is_managed_by(recordMap[ident], controller_name)
        /\ ~(entryMap[ident].rdata = recordMap[ident].rdata
             /\ entryMap[ident].ttl = recordMap[ident].ttl) }

(* ------------------------------ state --------------------------------- *)

VARIABLES
    provZones,       \* zones held by the provider
    provRecords,     \* records of the resource's zone at the provider, in listing order
    nextId,          \* next record id the provider assigns
    cf_domains,      \* value of the watch channel: the zone catalog
    published,       \* every list sent on the channel so far
    refreshPc,       \* position of the spawned refresh task
    mainPc,          \* position of main()
    zone,            \* the Zone resource: optional fqdn, optional status
    mode,            \* Context::mode
    pc,              \* position of the reconcile pass
    cloudflare_zone, \* zone found by the lookup of this pass
    listing,         \* Vec<Record> returned by records() in this pass
    todo,            \* identities the running loop has not handled yet
    calls,           \* provider calls of this pass, in order
    result,          \* what the pass returned
    requeue          \* seconds of the Action the controller got for the pass

vars == << provZones, provRecords, nextId, cf_domains, published, refreshPc, mainPc,
           zone, mode, pc, cloudflare_zone, listing, todo, calls, result, requeue >>

provVars == << provZones, provRecords, nextId >>
catalogVars == << cf_domains, published, refreshPc >>
passVars == << pc, cloudflare_zone, listing, todo, calls, result, requeue >>

(* ------------------------------- Init ---------------------------------- *)

\* all orderings of a finite set
SeqsOf(S) ==
    { s \in [1..Cardinality(S) -> S] : \A i, j \in 1..Cardinality(S) : s[i] = s[j] => i = j }

\* no two items of the sequence share an identity
DistinctIdents(items) ==
    \A i, j \in DOMAIN items : RecordIdent(items[i]) = RecordIdent(items[j]) => i = j

\* the record the provider holds under `id` for identity `ident`
MkRecord(id, ident, ttl, mark) ==
    [id |-> id, fqdn |-> ident.fqdn, type |-> ident.type, rdata |-> ident.rdata,
     comment |-> mark.comment, tags |-> mark.tags, ttl |-> ttl]

\* a ZoneEntry of the resource's status
MkEntry(ident, ttl) ==
    [fqdn |-> ident.fqdn, type |-> ident.type, rdata |-> ident.rdata, ttl |-> ttl]

\* position of an item's identity in IdentOrder
Rank(item) == CHOOSE k \in DOMAIN IdentOrder : IdentOrder[k] = RecordIdent(item)

\* the items come in the order of IdentOrder, each identity at most once
Ranked(items) == \A i, j \in DOMAIN items : i < j => Rank(items[i]) < Rank(items[j])

\* the provider lists no SOA record among a zone's dns_records
RecordCores ==
    [ident : { i \in IdentUniverse : i.type # "SOA" }, ttl : TTLs, mark : OwnerMarkUniverse]

\* initial record listings: the provider numbers its records 1, 2, ...
Listings ==
    { [k \in DOMAIN cores |-> MkRecord(k, cores[k].ident, cores[k].ttl, cores[k].mark)] :
        cores \in UNION { [1..n -> RecordCores] : n \in 0..MaxRecords } }

EntryLists ==
    UNION { [1..n -> { MkEntry(ident, ttl) : ident \in IdentUniverse, ttl \in TTLs }] :
              n \in 0..MaxEntries }

\* the resources: any fqdn or none, any status or none
Resources(lists) ==
    [ fqdn : {{}} \cup { {f} : f \in ZoneFqdns }, status : {{}} \cup { {es} : es \in lists } ]

NoError == [kind |-> "none", code |-> 0]
NoResult == [kind |-> "none", inner |-> NoError]

\* the state when main() has spawned the refresh task and awaits rx.changed()
InitWith(zoneSets, listings, resources) ==
    /\ provZones \in zoneSets
    /\ provRecords \in listings
    /\ nextId = Len(provRecords) + 1
    /\ cf_domains = <<>>
    /\ published = {}
    /\ refreshPc = "list"
    /\ mainPc = "wait"
    /\ zone \in resources
    /\ mode \in Modes
    /\ pc = "idle"
    /\ cloudflare_zone = {}
    /\ listing = <<>>
    /\ todo = {}
    /\ calls = <<>>
    /\ result = NoResult
    /\ requeue = 0

\* the provider holds example.com; identities are unique within the zone's records
\* and within the resource's entries
Init ==
    InitWith({ {z} : z \in { y \in ProviderZoneUniverse : y.fqdn = ExampleCom } },
             { l \in Listings : DistinctIdents(l) },
             Resources({ l \in EntryLists : Ranked(l) }))

\* any record of the universe, SOA ones included, with the marker as its comment
\* or with a foreign comment, and with the ttl 300
AnyRecordCores ==
    [ident : IdentUniverse, ttl : {300}, mark : { m \in OwnerMarkUniverse : m.tags = {} }]

\* record listings in which identities may repeat
AnyListings ==
    { [k \in DOMAIN cores |-> MkRecord(k, cores[k].ident, cores[k].ttl, cores[k].mark)] :
        cores \in UNION { [1..n -> AnyRecordCores] : n \in 0..MaxRecords } }

\* the resources named example.com that have a status
ReadyResources(lists) == [ fqdn : {{ExampleCom}}, status : { {es} : es \in lists } ]

\* as Init, for a ready resource and a provider that lists whatever records it
\* likes: SOA records, and several records of one identity
InitAnyListing ==
    InitWith({ {z} : z \in { y \in ProviderZoneUniverse : y.fqdn = ExampleCom } },
             AnyListings,
             ReadyResources({ l \in EntryLists : Ranked(l) }))

\* listings of distinct identities whose records all carry the controller's marker
OwnedListings ==
    { l \in Listings :
        DistinctIdents(l) /\ \A k \in DOMAIN l : is_managed_by(l[k], controller_name) }

\* as Init, for a ready resource in Delete mode and a zone whose records are all
\* the controller's
InitConverge ==
    /\ InitWith({ {z} : z \in { y \in ProviderZoneUniverse : y.fqdn = ExampleCom } },
                OwnedListings,
                ReadyResources({ l \in EntryLists : Ranked(l) }))
    /\ mode = "Delete"

(* ------------------- main(): catalog refresh task ---------------------- *)

\* tokio::spawn(async move { if let Ok(zones) = list_zones().await { tx.send(zones) } ... }):
\* one list_zones call; its list is sent whole on the watch channel
RefreshListZonesWith(offered) ==
    /\ mainPc # "panicked"
    /\ refreshPc = "list"
    /\ \E resp \in offered, zones \in SeqsOf(provZones) :
         LET out == request(resp)
         IN  CASE out.kind = "Ok" ->
                    /\ cf_domains' = zones
                    /\ published' = published \cup {zones}
                    /\ refreshPc' = "sleep"
               [] IsPanic(out) ->
                    \* the task panics and drops tx
                    /\ refreshPc' = "done"
                    /\ UNCHANGED << cf_domains, published >>
               [] OTHER ->
                    /\ refreshPc' = "sleep"
                    /\ UNCHANGED << cf_domains, published >>
    /\ UNCHANGED << provVars, mainPc, zone, mode, passVars >>

\* tokio::time::sleep(5 minutes) returns; the task ends and tx is dropped
RefreshTaskEnds ==
    /\ mainPc # "panicked"
    /\ refreshPc = "sleep"
    /\ refreshPc' = "done"
    /\ UNCHANGED << provVars, cf_domains, published, mainPc, zone, mode, passVars >>

\* variant: main does not wait for the first list
MainChangedAnyway ==
    /\ mainPc = "wait"
    /\ mainPc' = "run"
    /\ UNCHANGED << provVars, catalogVars, zone, mode, passVars >>

\* rx.changed().await.unwrap(): Ok once a list was sent ...
MainChanged ==
    /\ mainPc = "wait"
    /\ published # {}
    /\ mainPc' = "run"
    /\ UNCHANGED << provVars, catalogVars, zone, mode, passVars >>

\* ... and Err, so unwrap panics, once tx is dropped without a send
MainChangedClosed ==
    /\ mainPc = "wait"
    /\ published = {}
    /\ refreshPc = "done"
    /\ mainPc' = "panicked"
    /\ UNCHANGED << provVars, catalogVars, zone, mode, passVars >>

\* someone registers another zone at the provider
ProviderAddZone ==
    /\ \E z \in ProviderZoneUniverse \ provZones : provZones' = provZones \cup {z}
    /\ UNCHANGED << provRecords, nextId, catalogVars, mainPc, zone, mode, passVars >>

(* ---------------------- reconcile(): one pass -------------------------- *)

\* the (RecordIdent, Record) map built from the listing
records == CollectByIdent(listing)

\* variant: a missing status counts as an empty entry list
status_entries_or_default(status) ==
    IF status = {} THEN { CollectByIdent(<<>>) }
    ELSE { CollectByIdent(WithoutSoa(CHOOSE es \in status : TRUE)) }

\* variant: a status without non-SOA entries counts as a missing status
status_entries_nonempty(status) ==
    IF status = {} \/ WithoutSoa(CHOOSE es \in status : TRUE) = <<>> THEN {}
    ELSE { CollectByIdent(WithoutSoa(CHOOSE es \in status : TRUE)) }

\* zone.status.as_ref().map(|status| &status.entries).ok_or(ZoneHasNoEntries)?, then
\* the (RecordIdent, ZoneEntry) map of the entries that are not SOA: None when the
\* resource has no status
status_entries(status) ==
    IF status = {} THEN {}
    ELSE { CollectByIdent(WithoutSoa(CHOOSE es \in status : TRUE)) }

entries == CHOOSE m \in status_entries(zone.status) : TRUE

\* variant: the update loop runs before the delete loop
PhasesUpdateFirst == << "create", "update", "delete" >>

\* the three loops of the pass, in program order
Phases == << "create", "delete", "update" >>

\* place of loop p in the pass
PhaseIndex(p) == CHOOSE i \in DOMAIN Phases : Phases[i] = p

LoopTodo(p, entryMap, recordMap) ==
    CASE p = "create" -> CreateSet(entryMap, recordMap)
      [] p = "delete" -> DeleteSet(entryMap, recordMap, mode)
      [] OTHER -> UpdateSet(entryMap, recordMap)

\* where the pass stands once the loops before the i-th have ended: at the first
\* loop that has a call to make, or at its end
RECURSIVE Enter(_, _, _)
Enter(i, entryMap, recordMap) ==
    IF i > Len(Phases) THEN [pc |-> "done", todo |-> {}]
    ELSE LET t == LoopTodo(Phases[i], entryMap, recordMap)
         IN  IF t # {} THEN [pc |-> Phases[i], todo |-> t]
             ELSE Enter(i + 1, entryMap, recordMap)

OkResult == [kind |-> "Ok", inner |-> NoError]

\* Ok(Action::requeue(ctx.requeue_time))
ReturnOk ==
    /\ pc' = "done"
    /\ todo' = {}
    /\ result' = OkResult
    /\ requeue' = requeue_time_secs

\* Err(e), then error_policy: Action::requeue(60 s)
error_policy(e) ==
    /\ pc' = "done"
    /\ todo' = {}
    /\ result' = e
    /\ requeue' = error_requeue_secs

\* an unwrap in the envelope decoding panicked: the process is gone
Panicked ==
    /\ mainPc' = "panicked"
    /\ UNCHANGED << pc, todo, result, requeue >>

\* the pass goes on at position `nxt`
GoOn(nxt) ==
    IF nxt.pc = "done" THEN ReturnOk
    ELSE /\ pc' = nxt.pc
         /\ todo' = nxt.todo
         /\ UNCHANGED << result, requeue >>

Call(op, zone_id, record_id, body, out) ==
    [op |-> op, zone_id |-> zone_id, record_id |-> record_id, body |-> body, outcome |-> out]

Unit == [unit |-> TRUE]

TheZone == CHOOSE z \in cloudflare_zone : TRUE

\* the controller starts a pass: fqdn check and zone lookup
ReconcileBegin ==
    /\ mainPc = "run"
    /\ pc \in {"idle", "done"}
    /\ calls' = <<>>
    /\ listing' = <<>>
    /\ IF zone.fqdn = {}
       THEN /\ ReturnOk
            /\ cloudflare_zone' = {}
       ELSE LET fqdn == CHOOSE f \in zone.fqdn : TRUE
                found == find_cloudflare_zone(cf_domains, fqdn)
            IN  /\ cloudflare_zone' = found
                /\ IF found = {}
                   THEN error_policy([kind |-> "ZoneNotFound", inner |-> NoError])
                   ELSE /\ pc' = "records"
                        /\ todo' = {}
                        /\ result' = NoResult
                        /\ requeue' = 0
    /\ UNCHANGED << provVars, catalogVars, mainPc, zone, mode >>

\* ctx.cloudflare.records(&cloudflare_zone.id).await?, then both maps are built
ListRecordsWith(offered) ==
    /\ mainPc = "run"
    /\ pc = "records"
    /\ \E resp \in offered :
         LET out == request(resp)
             got == provRecords
         IN  /\ calls' = Append(calls, Call("records", TheZone.id, 0, Unit, out))
             /\ CASE out.kind = "Ok" ->
                       /\ listing' = got
                       /\ UNCHANGED mainPc
                       /\ IF status_entries(zone.status) = {}
                          THEN error_policy([kind |-> "ZoneHasNoEntries", inner |-> NoError])
                          ELSE GoOn(Enter(1, entries, CollectByIdent(got)))
                  [] IsPanic(out) ->
                       /\ Panicked
                       /\ UNCHANGED listing
                  [] OTHER ->
                       /\ error_policy([kind |-> "CloudFlare", inner |-> out])
                       /\ UNCHANGED << listing, mainPc >>
    /\ UNCHANGED << provVars, catalogVars, zone, mode, cloudflare_zone >>

\* what a loop does after one provider call answered `out`, `rest` being left to do
AfterCall(i, rest, out) ==
    CASE out.kind = "Ok" ->
           /\ UNCHANGED mainPc
           /\ GoOn(IF rest # {} THEN [pc |-> Phases[i], todo |-> rest]
                   ELSE Enter(i + 1, entries, records))
      [] IsPanic(out) -> Panicked
      [] OTHER ->
           /\ UNCHANGED mainPc
           /\ error_policy([kind |-> "CloudFlare", inner |-> out])

\* variant: the request carries no comment
CreateBodyUnmarked(zone_id, managed_by, entry) ==
    [content |-> entry.rdata, name |-> entry.fqdn, proxied |-> FALSE, type |-> entry.type,
     comment |-> "", id |-> "", tags |-> {}, zone_id |-> zone_id]

\* the CreateRecord request body
CreateBody(zone_id, managed_by, entry) ==
    [content |-> entry.rdata, name |-> entry.fqdn, proxied |-> FALSE, type |-> entry.type,
     comment |-> ManagedByTag(managed_by), id |-> "", tags |-> {}, zone_id |-> zone_id]

\* ctx.cloudflare.create_record(&cloudflare_zone.id, &ctx.controller_name, missing_entry).await?
CreateRecordWith(offered) ==
    /\ mainPc = "run"
    /\ pc = "create"
    /\ \E ident \in todo, resp \in offered, ttl \in TTLs :
         LET out == request(resp)
             body == CreateBody(TheZone.id, controller_name, entries[ident])
         IN  /\ calls' = Append(calls, Call("create_record", TheZone.id, 0, body, out))
             /\ IF Applied(resp)
                THEN /\ provRecords' =
                          Append(provRecords,
                                 [id |-> nextId, fqdn |-> body.name, type |-> body.type,
                                  rdata |-> body.content, comment |-> {body.comment},
                                  tags |-> body.tags, ttl |-> ttl])
                     /\ nextId' = nextId + 1
                ELSE UNCHANGED << provRecords, nextId >>
             /\ AfterCall(PhaseIndex("create"), todo \ {ident}, out)
    /\ UNCHANGED << provZones, catalogVars, zone, mode, cloudflare_zone, listing >>

\* ctx.cloudflare.delete_record(&cloudflare_zone.id, &unexpected_record.id).await?;
\* its result {id} holds no name
DeleteRecordWith(offered) ==
    /\ mainPc = "run"
    /\ pc = "delete"
    /\ \E ident \in todo, resp \in { r \in offered : r.names } :
         LET out == request(resp)
             id == records[ident].id
         IN  /\ calls' = Append(calls, Call("delete_record", TheZone.id, id, Unit, out))
             /\ IF Applied(resp)
                THEN provRecords' = SelectSeq(provRecords, LAMBDA r : r.id # id)
                ELSE UNCHANGED provRecords
             /\ AfterCall(PhaseIndex("delete"), todo \ {ident}, out)
    /\ UNCHANGED << provZones, nextId, catalogVars, zone, mode, cloudflare_zone, listing >>

\* variant: the request asks for the provider's automatic ttl
UpdateBodyAutoTtl(entry) == [content |-> entry.rdata, ttl |-> 1]

\* the UpdateRecord request body
UpdateBody(entry) == [content |-> entry.rdata, ttl |-> entry.ttl]

\* ctx.cloudflare.update_record(&cloudflare_zone.id, &record.id, entry).await?
UpdateRecordWith(offered) ==
    /\ mainPc = "run"
    /\ pc = "update"
    /\ \E ident \in todo, resp \in offered :
         LET out == request(resp)
             id == records[ident].id
             body == UpdateBody(entries[ident])
         IN  /\ calls' = Append(calls, Call("update_record", TheZone.id, id, body, out))
             /\ IF Applied(resp)
                THEN provRecords' =
                       [k \in DOMAIN provRecords |->
                          IF provRecords[k].id = id
                          THEN [provRecords[k] EXCEPT !.rdata = body.content, !.ttl = body.ttl]
                          ELSE provRecords[k]]
                ELSE UNCHANGED provRecords
             /\ AfterCall(PhaseIndex("update"), todo \ {ident}, out)
    /\ UNCHANGED << provZones, nextId, catalogVars, zone, mode, cloudflare_zone, listing >>

(* --------------------------- specification ----------------------------- *)

\* the provider may answer every call with any response
RefreshListZones == RefreshListZonesWith(Responses)
ListRecords == ListRecordsWith(Responses)
CreateRecord == CreateRecordWith(Responses)
DeleteRecord == DeleteRecordWith(Responses)
UpdateRecord == UpdateRecordWith(Responses)

Next ==
    \/ RefreshListZones
    \/ RefreshTaskEnds
    \/ MainChanged
    \/ MainChangedClosed
    \/ ProviderAddZone
    \/ ReconcileBegin
    \/ ListRecords
    \/ CreateRecord
    \/ DeleteRecord
    \/ UpdateRecord

Spec == Init /\ [][Next]_vars

\* the provider answers every call with its payload
RefreshListZonesOk == RefreshListZonesWith(OkResponses)
ListRecordsOk == ListRecordsWith(OkResponses)
CreateRecordOk == CreateRecordWith(OkResponses)
DeleteRecordOk == DeleteRecordWith(OkResponses)
UpdateRecordOk == UpdateRecordWith(OkResponses)

\* the program with a provider that never fails and a zone nobody else touches
NextOk ==
    \/ RefreshListZonesOk
    \/ RefreshTaskEnds
    \/ MainChanged
    \/ ReconcileBegin
    \/ ListRecordsOk
    \/ CreateRecordOk
    \/ DeleteRecordOk
    \/ UpdateRecordOk

\* every task that can take a step takes one, and every pass that returned is
\* requeued: the controller runs reconcile again after the requeue delay
SpecConverge == InitConverge /\ [][NextOk]_vars /\ WF_vars(NextOk)

\* the program while nobody registers a zone at the provider
NextSameZones ==
    \/ RefreshListZones
    \/ RefreshTaskEnds
    \/ MainChanged
    \/ MainChangedClosed
    \/ ReconcileBegin
    \/ ListRecords
    \/ CreateRecord
    \/ DeleteRecord
    \/ UpdateRecord

\* the same program over any record listing
SpecAnyListing == InitAnyListing /\ [][NextSameZones]_vars

(* ---------------------- vocabulary of the properties ------------------- *)

Range(f) == { f[k] : k \in DOMAIN f }

OwnerMarker == "managed-by:kubizone-cloudflare"

\* the record carries the controller's marker as a tag or as its comment
Owned(record) == OwnerMarker \in record.tags \/ record.comment = {OwnerMarker}

CallsOf(op) == { k \in DOMAIN calls : calls[k].op = op }

MutationCalls == CallsOf("create_record") \cup CallsOf("update_record") \cup CallsOf("delete_record")

\* calls of `op` that name record `id`
CallsOn(op, id) == { k \in CallsOf(op) : calls[k].record_id = id }

\* create_record calls for identity `ident`
CreatesOf(ident) ==
    { k \in CallsOf("create_record") :
        /\ calls[k].body.name = ident.fqdn
        /\ calls[k].body.type = ident.type
        /\ calls[k].body.content = ident.rdata }

\* the pass has its records listing
ListingObtained ==
    /\ Len(calls) >= 1
    /\ calls[1].op = "records"
    /\ calls[1].outcome.kind = "Ok"

\* the desired entries as the resource states them
DesiredList == IF zone.status = {} THEN <<>> ELSE CHOOSE es \in zone.status : TRUE

DesiredNonSoa == { e \in Range(DesiredList) : e.type # "SOA" }

DesiredIdents == { RecordIdent(e) : e \in DesiredNonSoa }

ListedIdents == { RecordIdent(r) : r \in Range(listing) }

\* the pass returned, and the provider call that ended it (if one did) was an `ops` call
EndedIn(ops) ==
    /\ pc = "done"
    /\ result.kind = "CloudFlare"
    /\ calls # <<>>
    /\ calls[Len(calls)].op \in ops

PassOk == pc = "done" /\ result = OkResult

(* ------------------------------- C1 ----------------------------------- *)

\* C1 (ownership safety): in every pass and in either mode, no update_record and no
\* delete_record call names the id of a listed record that is_managed_by rejects,
\* whatever the desired entries are.
C1_OwnershipSafety ==
    \A r \in Range(listing) :
        ~Owned(r) => CallsOn("update_record", r.id) \cup CallsOn("delete_record", r.id) = {}

\* a Delete-mode pass ran to its end past a record that is not ours, whose identity
\* is desired with another ttl, and did mutate the zone
C1_Witness ==
    /\ PassOk
    /\ mode = "Delete"
    /\ MutationCalls # {}
    /\ \E r \in Range(listing), e \in DesiredNonSoa :
         ~Owned(r) /\ RecordIdent(r) = RecordIdent(e) /\ r.ttl # e.ttl

(* ------------------------------- C2 ----------------------------------- *)

\* the listing holds exactly the desired identities, each with the desired ttl
Converged ==
    /\ ListedIdents = DesiredIdents
    /\ \A r \in Range(listing), e \in DesiredNonSoa :
         RecordIdent(r) = RecordIdent(e) => r.ttl = e.ttl

\* C2 (idempotence): a pass over a zone whose listed records match the desired
\* non-SOA entries in identity and ttl issues no create_record, update_record or
\* delete_record call, in either mode, and returns Ok.
C2_Idempotence ==
    (ListingObtained /\ zone.status # {} /\ Converged) => (MutationCalls = {} /\ PassOk)

\* such a pass over a non-empty converged zone whose records are ours
C2_Witness ==
    /\ ListingObtained
    /\ zone.status # {}
    /\ Converged
    /\ Cardinality(DesiredIdents) = 2
    /\ \A r \in Range(listing) : Owned(r)
    /\ PassOk

(* ------------------------------- C3 ----------------------------------- *)

\* C3 (create completeness): a pass that returns Ok has issued exactly one
\* create_record call, with comment managed-by:<controller_name>, for every desired
\* non-SOA identity missing from the listing; and no pass issues create_record for an
\* identity the listing holds, owned or not.
C3_CreateCompleteness ==
    /\ (PassOk /\ ListingObtained) =>
          \A ident \in DesiredIdents \ ListedIdents :
             /\ Cardinality(CreatesOf(ident)) = 1
             /\ \A k \in CreatesOf(ident) : calls[k].body.comment = OwnerMarker
    /\ \A ident \in ListedIdents : CreatesOf(ident) = {}

\* a pass created one identity and passed over another that a foreign record holds
C3_Witness ==
    /\ PassOk
    /\ Cardinality(CallsOf("create_record")) = 1
    /\ \E r \in Range(listing) : ~Owned(r) /\ RecordIdent(r) \in DesiredIdents
    /\ DesiredIdents \ ListedIdents # {}

(* ------------------------------- C4 ----------------------------------- *)

\* listed records that are ours and whose identity no desired entry has
OwnedOrphans == { r \in Range(listing) : Owned(r) /\ RecordIdent(r) \notin DesiredIdents }

\* what mode gating says of every owned orphan of the pass
ModeGated ==
    \A r \in OwnedOrphans :
        /\ CallsOn("delete_record", r.id) # {} <=> mode = "Delete"
        /\ mode = "Upsert" =>
             /\ \A k \in DOMAIN calls : calls[k].record_id # r.id
             /\ r \in Range(provRecords)

\* C4 as stated (mode gating): in a pass that did not abort before its delete step,
\* an owned orphan is the target of delete_record iff mode = Delete; under Upsert no
\* call names it and it stays in the zone.
C4_ModeGatingAsStated ==
    (ListingObtained /\ zone.status # {}
       /\ (PassOk \/ EndedIn({"delete_record", "update_record"}))) => ModeGated

\* C4 as amended: the same in a pass that did not abort before the end of its
\* delete step.
C4_ModeGating ==
    (ListingObtained /\ zone.status # {}
       /\ (pc = "update" \/ PassOk \/ EndedIn({"update_record"}))) => ModeGated

\* a Delete-mode pass deleted two owned orphans and returned Ok
C4_Witness ==
    /\ PassOk
    /\ mode = "Delete"
    /\ Cardinality(OwnedOrphans) = 2
    /\ Cardinality(CallsOf("delete_record")) = 2

(* ------------------------------- C5 ----------------------------------- *)

\* what the update triggers say of every owned record whose identity is desired
UpdateTriggered ==
    \A r \in Range(listing), e \in DesiredNonSoa :
        (Owned(r) /\ RecordIdent(r) = RecordIdent(e)) =>
            /\ CallsOn("update_record", r.id) # {} <=> (e.rdata # r.rdata \/ e.ttl # r.ttl)
            /\ (e.rdata = r.rdata /\ e.ttl # r.ttl) =>
                 /\ Cardinality(CallsOn("update_record", r.id)) = 1
                 /\ \A k \in CallsOn("update_record", r.id) :
                      calls[k].body = [content |-> r.rdata, ttl |-> e.ttl]
                 /\ CreatesOf(RecordIdent(e)) = {}
                 /\ CallsOn("delete_record", r.id) = {}

\* C5 as stated (update triggers): in a pass that did not abort before its update
\* step, an owned record whose identity is desired is the target of update_record iff
\* its rdata or ttl differs from the entry's; a ttl-only difference gives exactly one
\* update_record for its id with the desired ttl and the same rdata, and no create
\* or delete for that identity.
C5_UpdateTriggersAsStated ==
    (ListingObtained /\ zone.status # {} /\ (PassOk \/ EndedIn({"update_record"})))
        => UpdateTriggered

\* C5 as amended: the same in a pass that did not abort before the end of its
\* update step, that is, in a pass that returned Ok.
C5_UpdateTriggers ==
    (ListingObtained /\ zone.status # {} /\ PassOk) => UpdateTriggered

\* a pass updated the ttl of one owned record and left an up-to-date one alone
C5_Witness ==
    /\ PassOk
    /\ Cardinality(CallsOf("update_record")) = 1
    /\ \E r1, r2 \in Range(listing), e1, e2 \in DesiredNonSoa :
         /\ Owned(r1) /\ RecordIdent(r1) = RecordIdent(e1) /\ r1.ttl # e1.ttl
         /\ Owned(r2) /\ RecordIdent(r2) = RecordIdent(e2) /\ r2.ttl = e2.ttl

(* ------------------------------- C6 ----------------------------------- *)

\* the provider did not serve the call: no response, an undecodable body, or an
\* envelope with success = false
Failed(c) == c.outcome.kind \in {"Reqwest", "Deserialization", "Api", "PanicNoErrors"}

\* the effect of the successful call c is in the zone
StillApplied(c) ==
    CASE c.op = "create_record" ->
           \E r \in Range(provRecords) :
              /\ r.fqdn = c.body.name /\ r.type = c.body.type /\ r.rdata = c.body.content
              /\ r.comment = {c.body.comment}
      [] c.op = "delete_record" -> \A r \in Range(provRecords) : r.id # c.record_id
      [] c.op = "update_record" ->
           \E r \in Range(provRecords) :
              r.id = c.record_id /\ r.rdata = c.body.content /\ r.ttl = c.body.ttl
      [] OTHER -> TRUE

\* the failed call k is the last of the pass, the pass returned its error, and the
\* calls that succeeded before it are still applied
FailFastAt(k) ==
    /\ k = Len(calls)
    /\ pc = "done"
    /\ result = [kind |-> "CloudFlare", inner |-> calls[k].outcome]
    /\ \A j \in 1..(k - 1) : calls[j].outcome.kind = "Ok" /\ StillApplied(calls[j])

\* C6 (fail-fast without rollback): when a provider call of a pass fails, the pass
\* issues no further call, returns that failure as its error, and the mutations that
\* succeeded earlier in the pass stay applied.
C6_FailFast == \A k \in DOMAIN calls : Failed(calls[k]) => FailFastAt(k)

\* the same for the calls that return an error value (transport, decode, api error)
C6_FailFastOnErr ==
    \A k \in DOMAIN calls :
        calls[k].outcome.kind \in {"Reqwest", "Deserialization", "Api"} => FailFastAt(k)

(* ------------------------------- C7 ----------------------------------- *)

\* catalog zones whose fqdn equals the resource's
EqualZones == { z \in Range(cf_domains) : zone.fqdn = {z.fqdn} }

\* C7 (exact zone matching): a started pass of a resource with an fqdn works on a
\* catalog zone with that very fqdn; when the catalog has none (also when the fqdn
\* lies below a catalog zone) the pass ends with zone-not-found, has issued no
\* provider call, and the resource is requeued.
C7_ExactZoneMatch ==
    (pc # "idle" /\ zone.fqdn # {}) =>
        IF EqualZones # {}
        THEN /\ cloudflare_zone # {}
             /\ cloudflare_zone \subseteq EqualZones
             /\ result.kind # "ZoneNotFound"
        ELSE /\ pc = "done"
             /\ result.kind = "ZoneNotFound"
             /\ cloudflare_zone = {}
             /\ calls = <<>>
             /\ requeue = error_requeue_secs

\* the resource names sub.example.com, the catalog holds only example.com, and the
\* pass ended with zone-not-found
C7_Witness ==
    /\ pc = "done"
    /\ zone.fqdn = {SubExampleCom}
    /\ cf_domains = << [id |-> "z1", fqdn |-> ExampleCom] >>
    /\ result.kind = "ZoneNotFound"
    /\ provRecords # <<>>

(* ------------------------------- C8 ----------------------------------- *)

\* C8 as stated (not-ready): a pass of a resource without fqdn, or without status,
\* ends in the not-ready error and issues no create, update or delete call.
C8_NotReadyAsStated ==
    (pc = "done" /\ (zone.fqdn = {} \/ zone.status = {})) =>
        (result.kind = "ZoneHasNoEntries" /\ MutationCalls = {})

\* C8 as amended: a pass of a resource without status whose zone was found and
\* whose records listing succeeded ends in the not-ready error (a kind of its own),
\* after that one listing call; a pass of a resource without fqdn returns Ok with the
\* normal requeue and no provider call at all; neither issues a create, update or
\* delete call.
C8_NotReady ==
    /\ (pc = "done" /\ zone.fqdn # {} /\ zone.status = {} /\ ListingObtained) =>
          /\ result = [kind |-> "ZoneHasNoEntries", inner |-> NoError]
          /\ Len(calls) = 1
          /\ requeue = error_requeue_secs
    /\ (pc = "done" /\ zone.fqdn = {}) =>
          /\ result = OkResult
          /\ calls = <<>>
          /\ requeue = requeue_time_secs
    /\ (zone.fqdn = {} \/ zone.status = {}) => MutationCalls = {}

\* a Delete-mode pass of a resource without status listed a zone that holds a
\* record of ours and ended not-ready
C8_Witness ==
    /\ pc = "done"
    /\ zone.status = {}
    /\ mode = "Delete"
    /\ result.kind = "ZoneHasNoEntries"
    /\ \E r \in Range(listing) : Owned(r)

(* ------------------------------- C9 ----------------------------------- *)

\* C9 (periodic refresh): while the process runs, the refresh task is alive, either
\* listing the zones or sleeping until it lists them again.
C9_RefreshRepeats == mainPc = "run" => refreshPc \in {"list", "sleep"}

\* C9, the consequence: once the refresh task has stopped, the catalog holds every
\* zone of the provider.
C9_CatalogFollowsProvider ==
    (mainPc = "run" /\ refreshPc = "done") => provZones \subseteq Range(cf_domains)

(* ------------------------------- C10 ---------------------------------- *)

Malformed(c) == c.outcome.kind \in {"PanicNoResult", "PanicNoErrors", "PanicInvalidLabel"}

\* C11 (malformed input is a typed error): a call of a pass that is answered with a
\* malformed envelope or name returns an error value, which ends the pass with an
\* error; the process is not aborted.
C11_MalformedIsTypedError ==
    \A k \in DOMAIN calls :
        Malformed(calls[k]) =>
            /\ mainPc # "panicked"
            /\ pc = "done"
            /\ result.kind = "CloudFlare"

(* ------------------------------- C12 ---------------------------------- *)

\* C12 (error classification and propagation): every provider call of a pass ends
\* as the payload, a transport error, an envelope-decode error or an api error; an
\* error is the last call of the pass (no retry) and is what the pass returns, in
\* kind and value.
C12_FourOutcomes ==
    \A k \in DOMAIN calls :
        /\ calls[k].outcome.kind \in {"Ok", "Reqwest", "Deserialization", "Api"}
        /\ calls[k].outcome.kind # "Ok" =>
             /\ k = Len(calls)
             /\ pc = "done"
             /\ result = [kind |-> "CloudFlare", inner |-> calls[k].outcome]

\* the same for the calls that are answered with a transport failure, an undecodable
\* body or a well-formed envelope
C12_WellFormedOutcomes ==
    \A k \in DOMAIN calls :
        ~Malformed(calls[k]) =>
            /\ calls[k].outcome.kind \in {"Ok", "Reqwest", "Deserialization", "Api"}
            /\ calls[k].outcome.kind # "Ok" =>
                 /\ k = Len(calls)
                 /\ pc = "done"
                 /\ result = [kind |-> "CloudFlare", inner |-> calls[k].outcome]

(* ------------------------------- C13 ---------------------------------- *)

\* ids of the listed records that carry the controller's marker
OwnedListedIds == { r.id : r \in { x \in Range(listing) : Owned(x) } }

DeleteTargets == { calls[k].record_id : k \in CallsOf("delete_record") }

OpRank(op) ==
    CASE op = "records" -> 0
      [] op = "create_record" -> 1
      [] op = "delete_record" -> 2
      [] OTHER -> 3

\* C14 (step ordering): the first provider call of a pass is the records listing and
\* it is the only listing; create_record calls come before delete_record calls and
\* these before update_record calls; a call is issued only after the one before it
\* returned its payload; so a pass that ended in a failed create_record holds no delete
\* and no update call, and one that ended in a failed delete_record holds no update.
C14_StepOrder ==
    /\ calls # <<>> => (calls[1].op = "records" /\ CallsOf("records") = {1})
    /\ \A i, j \in DOMAIN calls : i < j => OpRank(calls[i].op) <= OpRank(calls[j].op)
    /\ \A i \in DOMAIN calls : i < Len(calls) => calls[i].outcome.kind = "Ok"
    /\ (mainPc = "run" /\ pc \in {"records", "create", "delete", "update"}) =>
          \A i \in DOMAIN calls : calls[i].outcome.kind = "Ok"
    /\ EndedIn({"create_record"}) =>
          CallsOf("delete_record") \cup CallsOf("update_record") = {}
    /\ EndedIn({"delete_record"}) => CallsOf("update_record") = {}

\* a pass made a call in the delete loop and then one in the update loop, and
\* returned Ok
C14_Witness ==
    /\ PassOk
    /\ Len(calls) = 3
    /\ calls[2].op = "delete_record"
    /\ calls[3].op = "update_record"

\* a Delete-mode pass ended in a failed create_record while a delete was still due
C14_AbortedCreate ==
    /\ EndedIn({"create_record"})
    /\ mode = "Delete"
    /\ DeleteSet(entries, records, mode) # {}

(* ------------------------------- C16 ---------------------------------- *)

\* the record of the zone with this id, before the step
RecordById(id) == CHOOSE r \in Range(provRecords) : r.id = id

\* what one step does to the records of the zone: a record that was there keeps its
\* id, name, type, comment and tags, hence its ownership either way; a record that
\* was not there comes from the create_record call of this step and has the marker
\* as its comment
MarkerStep ==
    \A r \in Range(provRecords') :
        IF \E o \in Range(provRecords) : o.id = r.id
        THEN LET o == RecordById(r.id)
             IN  /\ r.fqdn = o.fqdn
                 /\ r.type = o.type
                 /\ r.comment = o.comment
                 /\ r.tags = o.tags
                 /\ Owned(r) <=> Owned(o)
        ELSE /\ calls' # <<>>
             /\ calls'[Len(calls')].op = "create_record"
             /\ Len(calls') = Len(calls) + 1
             /\ r.comment = {OwnerMarker}
             /\ Owned(r)

\* what the requests carry: create_record the marker as the comment and no tag,
\* update_record content and ttl and nothing else
RequestBodies ==
    /\ \A k \in CallsOf("create_record") :
          calls[k].body.comment = OwnerMarker /\ calls[k].body.tags = {}
    /\ \A k \in CallsOf("update_record") : DOMAIN calls[k].body = {"content", "ttl"}

\* C16 (ownership marker lifecycle): every record that appears in the zone is made
\* by a create_record call, whose request carries comment managed-by:<controller_name>,
\* and is owned; update_record transmits content and ttl only; no step changes the
\* id, name, type, comment or tags of a record, so an owned record stays owned across
\* an update and no step turns an unowned record into an owned one.
C16_MarkerLifecycle == [][MarkerStep]_vars /\ []RequestBodies

\* a pass created a record and updated an owned one, and both are now owned records
\* of the zone
C16_Witness ==
    /\ PassOk
    /\ \E k \in CallsOf("create_record"), r \in Range(provRecords) :
          /\ calls[k].outcome.kind = "Ok"
          /\ r.id \notin { x.id : x \in Range(listing) }
          /\ Owned(r)
    /\ \E k \in CallsOf("update_record"), r \in Range(provRecords) :
          /\ calls[k].outcome.kind = "Ok"
          /\ r.id = calls[k].record_id
          /\ r.ttl = calls[k].body.ttl
          /\ Owned(r)

(* ------------------------------- C19 ---------------------------------- *)

\* identity the k-th call of the pass is about: the one in the request of a create,
\* the one of the listed record a delete or an update names
TargetIdent(k) ==
    IF calls[k].op = "create_record"
    THEN [fqdn |-> calls[k].body.name, type |-> calls[k].body.type, rdata |-> calls[k].body.content]
    ELSE RecordIdent(CHOOSE r \in Range(listing) : r.id = calls[k].record_id)

\* C19 (at most one mutation per record per pass): no two mutation calls of a pass
\* are about the same identity, and no two delete_record or update_record calls name
\* the same record id; a call that did not return its payload is the last call of
\* the pass, so it is not issued again; the pass then returns the error and the
\* 60 s requeue, and the next attempt is left to a later pass.
C19_OneMutationPerRecord ==
    /\ \A i, j \in MutationCalls : i # j => TargetIdent(i) # TargetIdent(j)
    /\ \A i, j \in MutationCalls \ CallsOf("create_record") :
          i # j => calls[i].record_id # calls[j].record_id
    /\ \A k \in DOMAIN calls : calls[k].outcome.kind # "Ok" => k = Len(calls)
    /\ \A k \in DOMAIN calls :
          calls[k].outcome.kind \in {"Reqwest", "Deserialization", "Api"} =>
              /\ pc = "done"
              /\ result = [kind |-> "CloudFlare", inner |-> calls[k].outcome]
              /\ requeue = error_requeue_secs

\* a pass made one mutation call that succeeded and a second, about another record,
\* that failed, and returned
C19_Witness ==
    /\ EndedIn({"create_record", "delete_record", "update_record"})
    /\ Cardinality(MutationCalls) = 2
    /\ requeue = error_requeue_secs

(* ------------------------------- C20 ---------------------------------- *)

\* the one list_zones call of the refresh task returned without a list
FirstListFailed == refreshPc # "list" /\ published = {}

\* C20 (startup ordering): the controller runs, and a pass has started, only after
\* the refresh task sent a list it got from a successful list_zones call; the
\* catalog a pass reads and the zone its lookup returned come from a list that was
\* sent, not from the empty placeholder the channel was made with; and once the
\* first list_zones call has failed no pass has run and none can start.
C20_StartupOrder ==
    /\ (mainPc = "run" \/ pc # "idle" \/ calls # <<>>) =>
          (published # {} /\ cf_domains \in published)
    /\ published = {} => (cf_domains = <<>> /\ mainPc \in {"wait", "panicked"})
    /\ FirstListFailed =>
          /\ pc = "idle"
          /\ ~ENABLED ReconcileBegin
          /\ ~ENABLED MainChanged
          /\ ~ENABLED RefreshListZones

\* the first list_zones call failed, the refresh task is gone and main gave up
\* waiting without a pass having run
C20_Witness ==
    /\ FirstListFailed
    /\ refreshPc = "done"
    /\ mainPc = "panicked"
    /\ pc = "idle"

(* ------------------------------- C17 ---------------------------------- *)

\* ids of the listed records of type SOA
ListedSoaIds == { r.id : r \in { x \in Range(listing) : x.type = "SOA" } }

\* C17 (SOA entries are never managed): whatever the desired entries and the listed
\* records are, no create_record call of a pass asks for a record of type SOA and no
\* update_record call names a listed record of type SOA.
C17_SoaNeverManaged ==
    /\ \A k \in CallsOf("create_record") : calls[k].body.type # "SOA"
    /\ \A k \in CallsOf("update_record") : calls[k].record_id \notin ListedSoaIds
    /\ pc \in {"create", "update"} => \A ident \in todo : ident.type # "SOA"

\* a pass returned Ok after a mutation call, for a resource with an SOA entry whose
\* identity is listed as a record of ours with another ttl
C17_Witness ==
    /\ PassOk
    /\ MutationCalls # {}
    /\ \E e \in Range(DesiredList), r \in Range(listing) :
          /\ e.type = "SOA"
          /\ RecordIdent(r) = RecordIdent(e)
          /\ Owned(r)
          /\ r.ttl # e.ttl

\* a pass returned Ok after a mutation call, for a resource with an SOA entry whose
\* identity is not listed
C17_UnlistedSoa ==
    /\ PassOk
    /\ MutationCalls # {}
    /\ \E e \in Range(DesiredList) : e.type = "SOA" /\ RecordIdent(e) \notin ListedIdents

(* ------------------------------- C18 ---------------------------------- *)

\* ids of the listed records that a later listed record shares its identity with
ShadowedIds ==
    { listing[i].id : i \in { k \in DOMAIN listing :
        \E j \in DOMAIN listing : k < j /\ RecordIdent(listing[k]) = RecordIdent(listing[j]) } }

\* C18 (duplicate identities, last seen wins): when the listing holds several
\* records of one identity, no update_record and no delete_record call names one
\* that is listed before another of its identity, no create_record call is about a
\* listed identity, each update or delete names the last listed record of its
\* identity, and the pass ends in an error only when a provider call failed.
C18_LastSeenWins ==
    /\ \A k \in CallsOf("update_record") \cup CallsOf("delete_record") :
          /\ calls[k].record_id \notin ShadowedIds
          /\ calls[k].record_id \in { r.id : r \in Range(listing) }
    /\ \A k \in CallsOf("create_record") : TargetIdent(k) \notin ListedIdents
    /\ pc = "done" =>
          \/ PassOk
          \/ /\ EndedIn({"records", "create_record", "delete_record", "update_record"})
             /\ calls[Len(calls)].outcome.kind # "Ok"

\* a pass over a listing with two records of one identity, the first not ours and
\* the second ours, made a mutation call on the second and returned Ok
C18_Witness ==
    /\ PassOk
    /\ Len(listing) = 2
    /\ RecordIdent(listing[1]) = RecordIdent(listing[2])
    /\ ~Owned(listing[1])
    /\ Owned(listing[2])
    /\ \E k \in MutationCalls : calls[k].record_id = listing[2].id

(* ------------------------------- C15 ---------------------------------- *)

\* the zone holds one record for each desired identity, with the desired ttl, and
\* no other record
ZoneConverged ==
    /\ { RecordIdent(r) : r \in Range(provRecords) } = DesiredIdents
    /\ Len(provRecords) = Cardinality(DesiredIdents)
    /\ \A r \in Range(provRecords), e \in DesiredNonSoa :
          RecordIdent(r) = RecordIdent(e) => r.ttl = e.ttl

\* C15 (eventual convergence): with a fixed desired list, mode Delete, a zone whose
\* records are all owned, a provider that never fails and no change from outside,
\* the repeated passes reach a state from which on the zone's records equal the
\* desired non-SOA entries in identity and ttl and no pass holds a mutation call.
C15_Convergence == <>[](ZoneConverged /\ MutationCalls = {})

\* a pass that created a record returned Ok and the zone is not converged: the
\* provider gave the new record a ttl that is not the desired one
C15_Witness ==
    /\ PassOk
    /\ CallsOf("create_record") # {}
    /\ \E r \in Range(provRecords), e \in DesiredNonSoa :
          /\ r.id \notin { x.id : x \in Range(listing) }
          /\ RecordIdent(r) = RecordIdent(e)
          /\ r.ttl # e.ttl
    /\ ~ZoneConverged


====
